---- MODULE Spec2Model ----
(***************************************************************************)
(* Temperature analysis dashboard (app.py, utils_func.py).                 *)
(*                                                                         *)
(* One run of the script app.py for one selected city: the city's rows are *)
(* analysed (analyze_city_temperature), the trend message is chosen, and,  *)
(* when an API key is entered, the current temperature is fetched          *)
(* (get_current_temperature) and compared with the season's normal range.  *)
(*                                                                         *)
(* Numbers.  Temperatures and timestamps are integers.  A mean is kept as  *)
(* the exact fraction num/den (den > 0) and a sample standard deviation as *)
(* the square root of the exact fraction q/d (d > 0), or as NaN; all       *)
(* comparisons are decided exactly by cross-multiplication and squaring.   *)
(* Floating-point rounding is not part of the model.  The city column and  *)
(* the city name are constant over a run and are left out.                 *)
(***************************************************************************)
EXTENDS Integers, Sequences, FiniteSets, TLC

VARIABLES
    pc,            \* position of the script
    uploaded,      \* data[data['city'] == selected_city]: the rows as uploaded
    city_df,       \* the copy handed to the analysis and to the charts
    city_result,   \* the dict returned by analyze_city_temperature
    trend_msg,     \* which of the three trend messages was written
    api_key,       \* the text of the API key input
    response,      \* the HTTP exchange of the current call of get_current_temperature
    current_temp,  \* the value returned by get_current_temperature
    reading,       \* the locals of the normal-range check
    shown,         \* what the live-reading block put on the page
    uncaught       \* the exception that ended the script, if any

vars == <<pc, uploaded, city_df, city_result, trend_msg, api_key, response,
          current_temp, reading, shown, uncaught>>

----------------------------------------------------------------------------
(* Bounds of the model *)

MaxLen == 3        \* the short series have 1..MaxLen rows
MaxTemp == 2       \* temperatures of the short series are 0..MaxTemp
LongLen == 32      \* number of rows of the long series (more than one window)

(* rolling(window=30, min_periods=1) *)
Window == 30

Seasons == {"winter", "spring", "summer", "autumn"}
DataSeasons == {"winter", "summer"}     \* labels used by the generated series
TimePatterns == {"asc", "desc", "same", "pairs"}
CurTemps == (0 - 1) .. (MaxTemp + 1)    \* temperatures the provider may report
Statuses == {200, 401, 500}
Bodies == {"temp", "temp_null", "incomplete", "not_json"}

----------------------------------------------------------------------------
(* Exact arithmetic *)

Rat(n, d) == [num |-> n, den |-> d]
NaN == [nan |-> TRUE, q |-> 0, d |-> 1]
Root(q, d) == [nan |-> FALSE, q |-> q, d |-> d]

RECURSIVE SeqSum(_)
SeqSum(x) == IF x = <<>> THEN 0 ELSE x[1] + SeqSum(Tail(x))

SumSq(x) == SeqSum([k \in 1..Len(x) |-> x[k] * x[k]])

RECURSIVE SeqMin(_)
SeqMin(x) == IF Len(x) = 1 THEN x[1]
             ELSE LET m == SeqMin(Tail(x)) IN IF x[1] < m THEN x[1] ELSE m

RECURSIVE SeqMax(_)
SeqMax(x) == IF Len(x) = 1 THEN x[1]
             ELSE LET m == SeqMax(Tail(x)) IN IF x[1] > m THEN x[1] ELSE m

(* Series.mean() *)
Mean(x) == Rat(SeqSum(x), Len(x))

(* Series.std(): the sample standard deviation (ddof = 1), NaN for fewer  *)
(* than two observations:  var = (n*sum(x^2) - sum(x)^2) / (n*(n-1)).     *)
Std(x) ==
    LET n == Len(x) IN
    IF n < 2 THEN NaN
    ELSE Root(n * SumSq(x) - SeqSum(x) * SeqSum(x), n * (n - 1))

(* t > mean + k*std and t < mean + k*std (k = 2 or -2), false against NaN. *)
(* With D = t*den - num:  t - mean = D/den  and  (k*std)^2 = k*k*q/d.      *)
GtBound(t, mean, k, std) ==
    IF std.nan THEN FALSE
    ELSE LET D == t * mean.den - mean.num
             L == D * D * std.d
             R == k * k * mean.den * mean.den * std.q
         IN  IF k >= 0 THEN D > 0 /\ L > R
                       ELSE D > 0 \/ L < R

LtBound(t, mean, k, std) ==
    IF std.nan THEN FALSE
    ELSE LET D == t * mean.den - mean.num
             L == D * D * std.d
             R == k * k * mean.den * mean.den * std.q
         IN  IF k >= 0 THEN D < 0 \/ L < R
                       ELSE D < 0 /\ L > R

(* mean + k*std <= t  and  t <= mean + k*std, false against NaN *)
BoundLeq(mean, k, std, t) == ~std.nan /\ ~LtBound(t, mean, k, std)
LeqBound(t, mean, k, std) == ~std.nan /\ ~GtBound(t, mean, k, std)

----------------------------------------------------------------------------
(* analyze_city_temperature *)

(* The columns of a row of the uploaded data that the analysis reads *)
Row(ts, temp, s) == [timestamp |-> ts, temperature |-> temp, season |-> s]

(* df.groupby('season'): the row numbers of each label that occurs, in row *)
(* order, collected by one pass over the rows.                             *)
RECURSIVE GroupRows(_, _)
GroupRows(df, n) ==
    IF n = 0 THEN [s \in {} |-> <<>>]
    ELSE LET g == GroupRows(df, n - 1)
             s == df[n].season
         IN  IF s \in DOMAIN g THEN [g EXCEPT ![s] = Append(@, n)]
                               ELSE g @@ (s :> <<n>>)

GroupBy(df) == GroupRows(df, Len(df))

(* ['temperature'] of one group *)
GroupTemps(df, idx) == [j \in 1..Len(idx) |-> df[idx[j]].temperature]

(* Variant of RollWindow: the window reaches one observation too far back *)
RollWindowOneMore(x, k) == SubSeq(x, IF k > Window THEN k - Window ELSE 1, k)

(* x.rolling(window=30, min_periods=1): the window that ends at position k *)
RollWindow(x, k) == SubSeq(x, IF k > Window THEN k - Window + 1 ELSE 1, k)

RollingMean(x) == [k \in 1..Len(x) |-> Mean(RollWindow(x, k))]
RollingStd(x) == [k \in 1..Len(x) |-> Std(RollWindow(x, k))]

(* The lambdas of lines 74 and 77 applied to each group's temperatures *)
GroupedRollingMean(df) ==
    LET g == GroupBy(df) IN [s \in DOMAIN g |-> RollingMean(GroupTemps(df, g[s]))]
GroupedRollingStd(df) ==
    LET g == GroupBy(df) IN [s \in DOMAIN g |-> RollingStd(GroupTemps(df, g[s]))]

(* groupby('season')['temperature'].transform(...): the per-group results  *)
(* r put back at the rows they came from.                                  *)
Transform(df, r) ==
    LET g == GroupBy(df)
    IN  [i \in 1..Len(df) |->
            LET idx == g[df[i].season]
                k == CHOOSE k \in 1..Len(idx) : idx[k] = i
            IN  r[df[i].season][k]]

(* Variant of IsAnomaly: the two comparisons are not strict *)
IsAnomalyNonStrict(x) ==
    \/ BoundLeq(x.rolling_mean, 2, x.rolling_std, x.temperature)
    \/ LeqBound(x.temperature, x.rolling_mean, 0 - 2, x.rolling_std)

(* the lambda of city_df.apply(..., axis=1) *)
IsAnomaly(x) ==
    \/ GtBound(x.temperature, x.rolling_mean, 2, x.rolling_std)
    \/ LtBound(x.temperature, x.rolling_mean, 0 - 2, x.rolling_std)

(* df[name] = values: the column is added to every row *)
Assign(df, name, values) == [i \in 1..Len(df) |-> df[i] @@ (name :> values[i])]

(* city_df after the three column assignments of lines 73-85 *)
WithColumns(df) ==
    LET df1 == Assign(df, "rolling_mean", Transform(df, GroupedRollingMean(df)))
        df2 == Assign(df1, "rolling_std", Transform(df1, GroupedRollingStd(df1)))
    IN  Assign(df2, "anomaly", [i \in 1..Len(df2) |-> IsAnomaly(df2[i])])

(* Variant of SeasonProfile: one row per season of the calendar, 0 and 0   *)
(* for a season without records                                            *)
SeasonProfileAllSeasons(df) ==
    LET g == GroupBy(df)
    IN  [s \in Seasons |->
            IF s \in DOMAIN g
            THEN [mean |-> Mean(GroupTemps(df, g[s])), std |-> Std(GroupTemps(df, g[s]))]
            ELSE [mean |-> Rat(0, 1), std |-> Root(0, 1)]]

(* groupby('season')['temperature'].agg(['mean', 'std']) *)
SeasonProfile(df) ==
    LET g == GroupBy(df)
    IN  [s \in DOMAIN g |-> [mean |-> Mean(GroupTemps(df, g[s])),
                             std |-> Std(GroupTemps(df, g[s]))]]

(* Variant of Trend: the fit without an intercept, slope Sxy / Sxx *)
TrendThroughOrigin(df) ==
    LET n == Len(df)
        xs == [i \in 1..n |-> df[i].timestamp]
        ys == [i \in 1..n |-> df[i].temperature]
    IN  Rat(SeqSum([i \in 1..n |-> xs[i] * ys[i]]), SumSq(xs))

(* LinearRegression().fit(timestamp, temperature).coef_[0]: the least      *)
(* squares slope (n*Sxy - Sx*Sy) / (n*Sxx - Sx*Sx).  When every timestamp  *)
(* is the same the centred predictor is zero and the minimum-norm solution *)
(* of the least squares problem is returned, which is 0.                   *)
Trend(df) ==
    LET n == Len(df)
        xs == [i \in 1..n |-> df[i].timestamp]
        ys == [i \in 1..n |-> df[i].temperature]
        sxy == SeqSum([i \in 1..n |-> xs[i] * ys[i]])
        den == n * SumSq(xs) - SeqSum(xs) * SeqSum(xs)
    IN  IF den = 0 THEN Rat(0, 1)
        ELSE Rat(n * sxy - SeqSum(xs) * SeqSum(ys), den)

(* city_df[city_df['anomaly']] *)
AnomalyRows(df) == SelectSeq(df, LAMBDA x : x.anomaly)

Project2(df, c1, c2) == [i \in 1..Len(df) |-> (c1 :> df[i][c1]) @@ (c2 :> df[i][c2])]

(* the dict returned, computed from city_df as left by the assignments *)
Result(df) ==
    LET temps == [i \in 1..Len(df) |-> df[i].temperature]
    IN  [done |-> TRUE,
         average_temperature |-> Mean(temps),
         min_temperature |-> SeqMin(temps),
         max_temperature |-> SeqMax(temps),
         season_profile |-> SeasonProfile(df),
         trend |-> Trend(df),
         rolling_mean |-> Project2(df, "timestamp", "rolling_mean"),
         rolling_std |-> Project2(df, "timestamp", "rolling_std"),
         anomalies |-> Project2(AnomalyRows(df), "timestamp", "temperature")]

NoResult == [done |-> FALSE]

----------------------------------------------------------------------------
(* The series the runs start from *)

Timestamp(pattern, i, n) ==
    CASE pattern = "asc" -> i
      [] pattern = "desc" -> n + 1 - i
      [] pattern = "same" -> 1
      [] pattern = "pairs" -> (i + 1) \div 2

(* every series of 1..MaxLen rows over the small domains *)
SmallSeries ==
    UNION { { [i \in 1..n |-> Row(Timestamp(p, i, n), t[i], s[i])] :
                t \in [1..n -> 0..MaxTemp], s \in [1..n -> DataSeasons],
                p \in TimePatterns } : n \in 1..MaxLen }

(* LongLen daily rows at temperature 1, except the first row and row k at  *)
(* temperature w; every m-th row labelled summer and the others winter     *)
LongSeries ==
    { [i \in 1..LongLen |->
          Row(i, IF i \in {1, k} THEN w ELSE 1,
              IF i % m = 0 THEN "summer" ELSE "winter")] :
        m \in 2..(LongLen + 1), k \in 1..LongLen, w \in 0..MaxTemp }

NoResponse == [net |-> "none", status |-> 0, body |-> "none", temp |-> 0]
NoValue == [type |-> "none", val |-> 0, payload |-> "none"]
NoReading == [done |-> FALSE, season |-> "none"]

InitWith(series) ==
    /\ pc = "loaded"
    /\ uploaded \in series
    /\ city_df = uploaded
    /\ city_result = NoResult
    /\ trend_msg = "none"
    /\ api_key = ""
    /\ response = NoResponse
    /\ current_temp = NoValue
    /\ reading = NoReading
    /\ shown = "none"
    /\ uncaught = "none"

Init == InitWith(SmallSeries)
InitLong == InitWith(LongSeries)

----------------------------------------------------------------------------
(* app.py *)

(* line 31: city_result = analyze_city_temperature(city_df, selected_city) *)
Analyze ==
    /\ pc = "loaded"
    /\ city_df' = WithColumns(city_df)
    /\ city_result' = Result(city_df')
    /\ pc' = "analyzed"
    /\ UNCHANGED <<uploaded, trend_msg, api_key, response, current_temp,
                   reading, shown, uncaught>>

(* lines 39-44: the branch on the trend coefficient *)
TrendMessage(trend) ==
    IF trend.num > 0 THEN "positive"
    ELSE IF trend.num > 0 THEN "zero"
    ELSE "negative"

ShowTrend ==
    /\ pc = "analyzed"
    /\ trend_msg' = TrendMessage(city_result.trend)
    /\ pc' = "described"
    /\ UNCHANGED <<uploaded, city_df, city_result, api_key, response,
                   current_temp, reading, shown, uncaught>>

(* Series.dt.month.  A timestamp is a day number, day 1 being 1 January of *)
(* a year of 365 days.                                                     *)
MonthOf(day) ==
    LET d == ((day - 1) % 365) + 1
    IN  Cardinality({e \in {31, 59, 90, 120, 151, 181, 212, 243, 273, 304, 334} : e < d}) + 1

(* lines 49-70: the three charts.  plot_annual_temperature_cycle(city_df)  *)
(* adds the column month to the frame it is given (utils_func.py line 283); *)
(* the figures themselves are not part of the state.                       *)
DrawCharts ==
    /\ pc = "described"
    /\ city_df' = Assign(city_df, "month",
                         [i \in 1..Len(city_df) |-> MonthOf(city_df[i].timestamp)])
    /\ pc' = "charted"
    /\ UNCHANGED <<uploaded, city_result, trend_msg, api_key, response,
                   current_temp, reading, shown, uncaught>>

(* line 75: no API key was entered, the live-reading block is skipped *)
NoApiKey ==
    /\ pc = "charted"
    /\ api_key' = ""
    /\ pc' = "done"
    /\ UNCHANGED <<uploaded, city_df, city_result, trend_msg, response,
                   current_temp, reading, shown, uncaught>>

(* The values get_current_temperature can return *)
Number(t) == [type |-> "number", val |-> t, payload |-> "none"]
NoneValue == [type |-> "NoneType", val |-> 0, payload |-> "none"]
Dict(p) == [type |-> "dict", val |-> 0, payload |-> p]

(* The HTTP exchanges: requests.get raises, or a response arrives with a   *)
(* status code and a body.  The body is not JSON, or JSON without          *)
(* ['main']['temp'], or JSON whose ['main']['temp'] is null or a number.   *)
Responses ==
    {[net |-> "exception", status |-> 0, body |-> "none", temp |-> 0]}
    \cup {[net |-> "ok", status |-> st, body |-> b, temp |-> 0] :
            st \in Statuses, b \in Bodies \ {"temp"}}
    \cup {[net |-> "ok", status |-> st, body |-> "temp", temp |-> 0] :
            st \in Statuses \ {200}}
    \cup {[net |-> "ok", status |-> 200, body |-> "temp", temp |-> t] :
            t \in CurTemps}

(* utils_func.py lines 27-44 *)
GetCurrentTemperature(r) ==
    IF r.net = "exception" THEN Dict("error_exception")           \* requests.get raised
    ELSE IF r.body = "not_json" THEN Dict("error_exception")      \* response.json() raised
    ELSE IF r.status = 401 THEN Dict("invalid_api_key")
    ELSE IF r.status = 200 THEN
        IF r.body = "incomplete" THEN Dict("error_exception")     \* KeyError, caught
        ELSE IF r.body = "temp_null" THEN NoneValue
        ELSE Number(r.temp)
    ELSE Dict("error_unexpected")

(* line 76 *)
FetchCurrentTemperature ==
    /\ pc = "charted"
    /\ api_key' = "key"
    /\ \E r \in Responses :
          /\ response' = r
          /\ current_temp' = GetCurrentTemperature(r)
    /\ pc' = "fetched"
    /\ UNCHANGED <<uploaded, city_df, city_result, trend_msg, reading, shown,
                   uncaught>>

(* lines 77-78: isinstance(current_temp, dict) *)
ShowError ==
    /\ pc = "fetched"
    /\ current_temp.type = "dict"
    /\ shown' = "error"
    /\ response' = NoResponse
    /\ pc' = "done"
    /\ UNCHANGED <<uploaded, city_df, city_result, trend_msg, api_key,
                   current_temp, reading, uncaught>>

(* lines 83-86 *)
season_map(month) ==
    CASE month \in {12, 1, 2} -> "winter"
      [] month \in {3, 4, 5} -> "spring"
      [] month \in {6, 7, 8} -> "summer"
      [] month \in {9, 10, 11} -> "autumn"

(* Variant of IsNormal: both ends exclusive *)
IsNormalExclusive(mean, std, t) == LtBound(t, mean, 2, std) /\ GtBound(t, mean, 0 - 2, std)

(* line 95: lower_bound <= current_temp <= upper_bound *)
IsNormal(mean, std, t) == BoundLeq(mean, 0 - 2, std, t) /\ LeqBound(t, mean, 2, std)

(* lines 79-104 with the clock at `month`.  .loc[current_season] raises    *)
(* KeyError when the label is not in the index; the comparison of line 95  *)
(* raises TypeError when current_temp is None.  Nothing catches either.    *)
CheckReading(month) ==
    LET current_season == season_map(month)
        profile == city_result.season_profile
    IN  IF current_season \notin DOMAIN profile THEN
            /\ uncaught' = "KeyError"
            /\ reading' = [done |-> FALSE, season |-> current_season]
            /\ shown' = "temperature"
            /\ pc' = "crashed"
        ELSE IF current_temp.type # "number" THEN
            /\ uncaught' = "TypeError"
            /\ reading' = [done |-> FALSE, season |-> current_season]
            /\ shown' = "temperature"
            /\ pc' = "crashed"
        ELSE
            LET mean_temp == profile[current_season].mean
                std_temp == profile[current_season].std
                is_normal == IsNormal(mean_temp, std_temp, current_temp.val)
            IN  /\ reading' = [done |-> TRUE, season |-> current_season,
                               mean |-> mean_temp, std |-> std_temp,
                               is_normal |-> is_normal]
                /\ shown' = IF is_normal THEN "normal" ELSE "out_of_range"
                /\ uncaught' = "none"
                /\ pc' = "done"

CheckCurrentReading ==
    /\ pc = "fetched"
    /\ current_temp.type # "dict"
    /\ \E month \in 1..12 : CheckReading(month)
    /\ response' = NoResponse
    /\ UNCHANGED <<uploaded, city_df, city_result, trend_msg, api_key,
                   current_temp>>

Next ==
    \/ Analyze
    \/ ShowTrend
    \/ DrawCharts
    \/ NoApiKey
    \/ FetchCurrentTemperature
    \/ ShowError
    \/ CheckCurrentReading

Spec == Init /\ [][Next]_vars
SpecLong == InitLong /\ [][Next]_vars

----------------------------------------------------------------------------
(* Properties *)

RECURSIVE SetSum(_, _)
SetSum(f, S) == IF S = {} THEN 0
                ELSE LET e == CHOOSE e \in S : TRUE IN f[e] + SetSum(f, S \ {e})

Analyzed == pc = "analyzed"
Rows == 1..Len(uploaded)
Temp == [i \in Rows |-> uploaded[i].temperature]
TempSq == [i \in Rows |-> uploaded[i].temperature * uploaded[i].temperature]
SameSeason(i, j) == uploaded[i].season = uploaded[j].season

(* The rows whose values the statistics of row i are taken over: the rows  *)
(* j <= i of the season of row i with fewer than Window rows of that       *)
(* season after them up to row i.                                          *)
WindowRows(i) ==
    {j \in 1..i : /\ SameSeason(i, j)
                  /\ Cardinality({k \in (j + 1)..i : SameSeason(i, k)}) < Window}

FirstOfSeason(i) == \A j \in 1..(i - 1) : ~SameSeason(i, j)

Flagged == {i \in Rows : city_df[i].anomaly}

(* The k-th entry of the anomaly list is the k-th flagged row *)
AnomalyListIsFlaggedRowsInOrder ==
    /\ Len(city_result.anomalies) = Cardinality(Flagged)
    /\ \A i \in Flagged :
          LET a == city_result.anomalies[Cardinality({j \in Flagged : j <= i})]
          IN  /\ a.timestamp = uploaded[i].timestamp
              /\ a.temperature = uploaded[i].temperature

(* C3: a record is flagged iff its temperature lies strictly more than two *)
(* rolling standard deviations away from the rolling mean of its own row;  *)
(* a record whose rolling std is undefined (the first of its season) is    *)
(* never flagged; the anomaly list holds exactly the flagged records.      *)
C3_AnomalyRule ==
    Analyzed =>
        /\ \A i \in Rows :
              LET x == city_df[i]
                  D == x.temperature * x.rolling_mean.den - x.rolling_mean.num
              IN  /\ x.anomaly <=>
                        /\ ~x.rolling_std.nan
                        /\ D * D * x.rolling_std.d >
                             4 * x.rolling_mean.den * x.rolling_mean.den * x.rolling_std.q
                  /\ FirstOfSeason(i) => x.rolling_std.nan
                  /\ x.rolling_std.nan => ~x.anomaly
        /\ AnomalyListIsFlaggedRowsInOrder

(* a long series in which some rows are flagged and the first row of a     *)
(* season lies away from the rest of its season                            *)
C3_Witness ==
    /\ Analyzed
    /\ Flagged # {}
    /\ \E i \in Rows : FirstOfSeason(i) /\ uploaded[i].temperature # 1
    /\ \E i \in Rows \ Flagged :
          /\ ~city_df[i].rolling_std.nan
          /\ city_df[i].rolling_std.q > 0
          /\ uploaded[i].temperature * city_df[i].rolling_mean.den # city_df[i].rolling_mean.num

(* C4: the rolling mean and rolling sample std of row i are those of the   *)
(* up to 30 most recent rows j <= i with the season of row i; rolling_mean, *)
(* rolling_std and the anomaly list are in the original row order.          *)
C4_SeasonWindow ==
    Analyzed =>
        /\ Len(city_result.rolling_mean) = Len(uploaded)
        /\ Len(city_result.rolling_std) = Len(uploaded)
        /\ \A i \in Rows :
              LET W == WindowRows(i)
                  n == Cardinality(W)
                  S == SetSum(Temp, W)
                  SS == SetSum(TempSq, W)
                  m == city_result.rolling_mean[i]
                  sd == city_result.rolling_std[i]
              IN  /\ m.timestamp = uploaded[i].timestamp
                  /\ sd.timestamp = uploaded[i].timestamp
                  /\ m.rolling_mean.den > 0
                  /\ m.rolling_mean.num * n = S * m.rolling_mean.den
                  /\ sd.rolling_std.nan <=> n = 1
                  /\ ~sd.rolling_std.nan =>
                        /\ sd.rolling_std.d > 0
                        /\ sd.rolling_std.q * n * (n - 1) = (n * SS - S * S) * sd.rolling_std.d
        /\ AnomalyListIsFlaggedRowsInOrder

(* a row with more than 30 earlier rows of its season, a row of another    *)
(* season inside the span of its window, and a value that has left it      *)
C4_Witness ==
    /\ Analyzed
    /\ \E i \in Rows :
          /\ Cardinality({j \in 1..i : SameSeason(i, j)}) > Window
          /\ \E j \in Rows : j < i /\ ~SameSeason(i, j) /\ \E k \in WindowRows(i) : k < j
          /\ \E j \in 1..i : SameSeason(i, j) /\ j \notin WindowRows(i)
                               /\ uploaded[j].temperature # 1

(* C5: the keys of the season profile are exactly the season labels that   *)
(* occur in the series.                                                    *)
C5_ProfileKeys ==
    Analyzed =>
        DOMAIN city_result.season_profile = {uploaded[i].season : i \in Rows}

(* several rows, all of one season: the other seasons are absent *)
C5_Witness ==
    /\ Analyzed
    /\ Len(uploaded) > 1
    /\ DOMAIN city_result.season_profile = {"summer"}

(* C6: when every record has the same temperature v, no record is flagged, *)
(* the trend is 0 and min = max = average = v.                             *)
C6_ConstantSeries ==
    (Analyzed /\ \A i \in Rows : uploaded[i].temperature = uploaded[1].temperature) =>
        LET v == uploaded[1].temperature
        IN  /\ city_result.anomalies = <<>>
            /\ city_result.trend.num = 0
            /\ city_result.min_temperature = v
            /\ city_result.max_temperature = v
            /\ city_result.average_temperature.num = v * city_result.average_temperature.den

(* a constant series at a non-zero value, two seasons, distinct timestamps *)
C6_Witness ==
    /\ Analyzed
    /\ Len(uploaded) = MaxLen
    /\ \A i \in Rows : uploaded[i].temperature = MaxTemp
    /\ \E i, j \in Rows : ~SameSeason(i, j)
    /\ \E i, j \in Rows : uploaded[i].timestamp # uploaded[j].timestamp
    /\ city_result.anomalies = <<>>

(* C7: is_normal is true iff the reading is at most two standard           *)
(* deviations of the season's profile entry away from its mean, the two    *)
(* bounds included.                                                        *)
C7_InclusiveRange ==
    reading.done =>
        LET D == current_temp.val * reading.mean.den - reading.mean.num
        IN  reading.is_normal <=>
                /\ ~reading.std.nan
                /\ D * D * reading.std.d <=
                     4 * reading.mean.den * reading.mean.den * reading.std.q

(* a reading exactly on the upper bound of a season with a non-zero std *)
C7_Witness ==
    /\ reading.done
    /\ ~reading.std.nan
    /\ reading.std.q > 0
    /\ LET D == current_temp.val * reading.mean.den - reading.mean.num
       IN  /\ D > 0
           /\ D * D * reading.std.d =
                4 * reading.mean.den * reading.mean.den * reading.std.q
    /\ reading.is_normal
    /\ shown = "normal"

(* C1: a lookup of a season that has no profile entry ends in a "season    *)
(* not found" error on the page and not in an uncaught exception.          *)
C1_SeasonNotFound ==
    (reading.season \in Seasons /\ reading.season \notin DOMAIN city_result.season_profile)
        => (uncaught = "none" /\ shown = "season_not_found")

(* C2: the positive message is written iff trend > 0, the zero message iff *)
(* trend = 0 and the negative message iff trend < 0.                       *)
C2_ThreeWayTrend ==
    pc = "described" =>
        /\ trend_msg = "positive" <=> city_result.trend.num > 0
        /\ trend_msg = "zero" <=> city_result.trend.num = 0
        /\ trend_msg = "negative" <=> city_result.trend.num < 0

(* C8: no result is returned for a series with fewer than two distinct     *)
(* timestamps.                                                             *)
C8_FewTimestampsRejected ==
    ~(city_result.done /\ Cardinality({uploaded[i].timestamp : i \in Rows}) < 2)

(* C9: the caller's series has the records and the columns it had before   *)
(* the analysis.                                                           *)
C9_InputUnchanged == city_df = uploaded

(* C10: the value returned is a number, and then the response was a 200,   *)
(* or an error payload; a 401 gives the invalid-credential payload and     *)
(* nothing else does; the normal-range check runs on a number only.        *)
C10_NumberOrError ==
    /\ pc = "fetched" =>
          /\ current_temp.type \in {"number", "dict"}
          /\ current_temp.type = "number" => (response.net = "ok" /\ response.status = 200)
          /\ (response.net = "ok" /\ response.status = 401)
                <=> current_temp = Dict("invalid_api_key")
    /\ reading.season \in Seasons => current_temp.type = "number"

====
